---- MODULE Spec2Model ----
(***************************************************************************)
(* Model of the stateful reconciliation logic of regionhop:                *)
(*   - the peer registry /etc/wireguard/wg0.conf and the add-client /      *)
(*     remove-client server scripts that allocate and reclaim tunnel       *)
(*     addresses (src/server-scripts/vpn-status.sh holds the remove-client *)
(*     script at lines 28-94 and the add-client script at lines 95-258);   *)
(*   - the DNS updater lambda that republishes the gateway name            *)
(*     (src/lib/dns-updater-lambda.ts);                                    *)
(*   - the region status probe (get_region_comprehensive_status).          *)
(* The registry is modelled line by line, and the grep/sed pipelines of    *)
(* the scripts are modelled by what they do to the text of each line.      *)
(***************************************************************************)
EXTENDS Integers, Sequences, FiniteSets, TLC

VARIABLES
  env,        \* /etc/wireguard/env.sh: HAS_IPV4_SUBNET, HAS_IPV6_SUBNET, ...
  wg0conf,    \* /etc/wireguard/wg0.conf, a sequence of lines
  clients,    \* /etc/wireguard/clients/<name>: does the directory exist, client_public_key
  nextKey,    \* the next key `wg genkey | wg pubkey` produces (keys are fresh)
  wg0backup,  \* /etc/wireguard/wg0.conf.backup.<ts> written by remove-client
  s3conf,     \* wireguard-config/wg0.conf in the S3 bucket
  lastOp,     \* what the last script run printed / returned (observation)
  lambdaEnv,  \* process.env of the DNS updater lambda
  zone,       \* the record sets of the hosted zone
  lastRec,    \* what the last lambda invocation returned (observation)
  probe,      \* inputs and result of the region status probe
  procs,      \* the add-client processes running on the gateway, step by step
  recon,      \* the instance launch the lambda is reconciling, step by step
  fleet,      \* per region: the compute stack's auto scaling group and its instances
  boot,       \* the gateway's server key, and the keys and clients in the S3 bucket
  attempts    \* two instances launched one after the other and their lambda runs

vars == << env, wg0conf, clients, nextKey, wg0backup, s3conf, lastOp,
           lambdaEnv, zone, lastRec, probe, procs, recon, fleet, boot,
           attempts >>

----------------------------------------------------------------------------
(* Bounds *)

\* last allocatable IPv4 offset (max_ip=254 in the script)
MaxIp4 == 4
\* last allocatable IPv6 offset (max_ip=65534 in the script)
MaxIp6 == 3
\* number of keys `wg genkey` hands out in one behaviour (number of add-client runs)
MaxKeys == 5

\* first allocatable offset, the server uses .1
StartIp == 2

Names == {"a", "b", "c"}

Min(S) == CHOOSE x \in S : \A y \in S : x <= y

----------------------------------------------------------------------------
(* The registry artifact, line by line *)

\* one line of wg0.conf: t is the text that identifies the line,
\* key the public key of a "PublicKey = ..." line (0 otherwise),
\* ips the comma-joined entries of an "AllowedIPs = ..." line
Line(t, key, ips) == [t |-> t, key |-> key, ips |-> ips]

\* one address of an AllowedIPs value: <base><off>/32 or <prefix><off>/128.
\* base and suf say whether the subnet base and the /32 (/128) suffix are
\* still part of the text (the sed commands of the scan strip them).
Entry(fam, off) == [fam |-> fam, off |-> off, base |-> TRUE, suf |-> TRUE]

InterfaceBlock ==
  << Line("[Interface]", 0, <<>>), Line("PrivateKey", 0, <<>>),
     Line("Address", 0, <<>>),     Line("ListenPort", 0, <<>>),
     Line("PostUp", 0, <<>>),      Line("PostDown", 0, <<>>) >>

\* grep "^\[": the line opens a section
IsSectionStart(l) == l.t \in {"[Interface]", "[Peer]"}

----------------------------------------------------------------------------
(* add-client: the address scans *)

\* sed "s|/32||" and sed "s|/128||": strip the first occurrence of the suffix
SedStripFirstSuffix(txt, fam) ==
  LET idx == {i \in 1..Len(txt) : txt[i].fam = fam /\ txt[i].suf}
  IN  IF idx = {} THEN txt ELSE [txt EXCEPT ![Min(idx)].suf = FALSE]

\* sed "s|$VPN_SUBNET_IPV4_BASE||g": strip every occurrence of the IPv4 base
SedStripBaseAll(txt) ==
  [i \in 1..Len(txt) |->
     IF txt[i].fam = 4 THEN [txt[i] EXCEPT !.base = FALSE] ELSE txt[i]]

\* used_ips of get_next_available_ipv4: the AllowedIPs lines that hold an
\* x.x.x.x/32, cut down to the value, with the first /32 stripped
used_ips_ipv4(conf) ==
  { SedStripFirstSuffix(conf[i].ips, 4) :
      i \in {j \in 1..Len(conf) :
               /\ conf[j].t = "AllowedIPs"
               /\ \E e \in 1..Len(conf[j].ips) : conf[j].ips[e].fam = 4} }

used_octets_ipv4(conf) == { SedStripBaseAll(txt) : txt \in used_ips_ipv4(conf) }

\* grep -qx "$ip": some line of used_octets is exactly the number ip
OctetUsed(octets, ip) ==
  \E txt \in octets :
     /\ Len(txt) = 1
     /\ txt[1].fam = 4 /\ ~txt[1].base /\ ~txt[1].suf
     /\ txt[1].off = ip

RECURSIVE ScanIpv4(_, _)
ScanIpv4(octets, ip) ==
  IF ip > MaxIp4 THEN [rc |-> 1, ip |-> 0]
  ELSE IF ~OctetUsed(octets, ip) THEN [rc |-> 0, ip |-> ip]
  ELSE ScanIpv4(octets, ip + 1)

\* variant: count the peers and increment, as the first add-client did
get_next_available_ipv4_count(conf, e) ==
  IF ~e.HAS_IPV4_SUBNET \/ ~e.VPN_SUBNET_IPV4_BASE
    THEN [rc |-> 1, ip |-> 0]
    ELSE [rc |-> 0,
          ip |-> StartIp + Cardinality({i \in 1..Len(conf) : conf[i].t = "[Peer]"})]

\* variant: a scan that starts over at the first offset when it runs off the range
get_next_available_ipv4_wrap(conf, e) ==
  IF ~e.HAS_IPV4_SUBNET \/ ~e.VPN_SUBNET_IPV4_BASE
    THEN [rc |-> 1, ip |-> 0]
    ELSE LET r == ScanIpv4(used_octets_ipv4(conf), StartIp)
         IN  IF r.rc = 0 THEN r ELSE [rc |-> 0, ip |-> StartIp]

get_next_available_ipv4(conf, e) ==
  IF ~e.HAS_IPV4_SUBNET \/ ~e.VPN_SUBNET_IPV4_BASE
    THEN [rc |-> 1, ip |-> 0]
    ELSE ScanIpv4(used_octets_ipv4(conf), StartIp)

\* used_ips of get_next_available_ipv6: the AllowedIPs lines that hold an
\* address followed by /128, cut down to the value, with the first /128 stripped
used_ips_ipv6(conf) ==
  { SedStripFirstSuffix(conf[i].ips, 6) :
      i \in {j \in 1..Len(conf) :
               /\ conf[j].t = "AllowedIPs"
               /\ \E e \in 1..Len(conf[j].ips) : conf[j].ips[e].fam = 6} }

\* grep -qx "$test_ip": some line of used_ips is exactly <prefix><ip>
Ipv6Used(used, ip) ==
  \E txt \in used :
     /\ Len(txt) = 1
     /\ txt[1].fam = 6 /\ txt[1].base /\ ~txt[1].suf
     /\ txt[1].off = ip

RECURSIVE ScanIpv6(_, _)
ScanIpv6(used, ip) ==
  IF ip > MaxIp6 THEN [rc |-> 1, ip |-> 0]
  ELSE IF ~Ipv6Used(used, ip) THEN [rc |-> 0, ip |-> ip]
  ELSE ScanIpv6(used, ip + 1)

get_next_available_ipv6(conf, e) ==
  IF ~e.HAS_IPV6_SUBNET \/ ~e.VPN_SUBNET_IPV6
    THEN [rc |-> 1, ip |-> 0]
    ELSE ScanIpv6(used_ips_ipv6(conf), StartIp)

\* SERVER_ALLOWED_IPS, joined by the first character of IFS
SERVER_ALLOWED_IPS(ip4, ip6) ==
  (IF ip4 # 0 THEN << Entry(4, ip4) >> ELSE <<>>) \o
  (IF ip6 # 0 THEN << Entry(6, ip6) >> ELSE <<>>)

\* the block `cat >> /etc/wireguard/wg0.conf` appends
PeerBlock(key, ip4, ip6) ==
  << Line("", 0, <<>>), Line("[Peer]", 0, <<>>),
     Line("PublicKey", key, <<>>),
     Line("AllowedIPs", 0, SERVER_ALLOWED_IPS(ip4, ip6)) >>

\* variant: the block is appended before the result of the scans is checked
AddClientRun_appendFirst(conf, e, key) ==
  LET r4 == IF e.HAS_IPV4_SUBNET THEN get_next_available_ipv4(conf, e)
                                 ELSE [rc |-> 0, ip |-> 0]
      r6 == IF e.HAS_IPV6_SUBNET THEN get_next_available_ipv6(conf, e)
                                 ELSE [rc |-> 0, ip |-> 0]
      appended == conf \o PeerBlock(key, r4.ip, r6.ip)
  IN  IF r4.rc # 0 \/ r6.rc # 0 \/ (r4.ip = 0 /\ r6.ip = 0)
        THEN [exit |-> 1, ip4 |-> 0, ip6 |-> 0, conf |-> appended]
        ELSE [exit |-> 0, ip4 |-> r4.ip, ip6 |-> r6.ip, conf |-> appended]

\* variant: without the check that at least one address was assigned
AddClientRun_noAddressCheck(conf, e, key) ==
  LET r4 == IF e.HAS_IPV4_SUBNET THEN get_next_available_ipv4(conf, e)
                                 ELSE [rc |-> 0, ip |-> 0]
      r6 == IF e.HAS_IPV6_SUBNET THEN get_next_available_ipv6(conf, e)
                                 ELSE [rc |-> 0, ip |-> 0]
  IN  IF r4.rc # 0 \/ r6.rc # 0
        THEN [exit |-> 1, ip4 |-> 0, ip6 |-> 0, conf |-> conf]
        ELSE [exit |-> 0, ip4 |-> r4.ip, ip6 |-> r6.ip,
              conf |-> conf \o PeerBlock(key, r4.ip, r6.ip)]

\* the add-client script from the address assignment on: exit code, the
\* addresses it assigned and the registry it leaves
AddClientRun(conf, e, key) ==
  LET r4 == IF e.HAS_IPV4_SUBNET THEN get_next_available_ipv4(conf, e)
                                 ELSE [rc |-> 0, ip |-> 0]
      r6 == IF e.HAS_IPV6_SUBNET THEN get_next_available_ipv6(conf, e)
                                 ELSE [rc |-> 0, ip |-> 0]
  IN  IF r4.rc # 0 THEN [exit |-> 1, ip4 |-> 0, ip6 |-> 0, conf |-> conf]
      ELSE IF r6.rc # 0 THEN [exit |-> 1, ip4 |-> 0, ip6 |-> 0, conf |-> conf]
      ELSE IF r4.ip = 0 /\ r6.ip = 0
             THEN [exit |-> 1, ip4 |-> 0, ip6 |-> 0, conf |-> conf]
      ELSE [exit |-> 0, ip4 |-> r4.ip, ip6 |-> r6.ip,
            conf |-> conf \o PeerBlock(key, r4.ip, r6.ip)]

----------------------------------------------------------------------------
(* remove-client: the block excision *)

\* grep -n "PublicKey = $CLIENT_PUBLIC_KEY" | cut -d: -f1
\* (keys are fresh, so at most one line matches; 0 stands for no match)
PEER_LINE(conf, key) ==
  LET m == {i \in 1..Len(conf) : conf[i].t = "PublicKey" /\ conf[i].key = key}
  IN  IF m = {} THEN 0 ELSE Min(m)

\* head -n $PEER_LINE | tac | grep -n "^\[Peer\]$" | head -1, turned back into
\* a line number: the last [Peer] line at or before PEER_LINE (0: none)
PEER_START(conf, pl) ==
  LET m == {i \in 1..pl : conf[i].t = "[Peer]"}
  IN  IF m = {} THEN 0 ELSE CHOOSE i \in m : \A j \in m : j <= i

\* variant: the section is taken to run to the end of the file
PEER_END_eof(conf, pl) == Len(conf)

\* tail -n +$((PEER_LINE + 1)) | grep -n "^\[" | head -1: the line before the
\* next section start, or the last line of the file
PEER_END(conf, pl) ==
  LET m == {i \in (pl + 1)..Len(conf) : IsSectionStart(conf[i])}
  IN  IF m = {} THEN Len(conf) ELSE Min(m) - 1

\* head -n $((PEER_START - 1)) > /tmp/wg0_temp; tail -n +$((PEER_END + 1)) >> /tmp/wg0_temp
Excise(conf, ps, pe) == SubSeq(conf, 1, ps - 1) \o SubSeq(conf, pe + 1, Len(conf))

\* the registry remove-client leaves for a client whose directory exists;
\* key = 0 stands for a missing client_public_key file
RemovePeerSection(conf, key) ==
  IF key = 0 THEN conf
  ELSE LET pl == PEER_LINE(conf, key)
       IN  IF pl = 0 THEN conf
           ELSE LET ps == PEER_START(conf, pl)
                IN  IF ps = 0 THEN conf
                    ELSE Excise(conf, ps, PEER_END(conf, pl))

----------------------------------------------------------------------------
(* Observations of a script run *)

NoDir == [dir |-> FALSE, key |-> 0]

\* the offsets of one family held by the AllowedIPs lines of a text
OffsetsIn(conf, fam) ==
  UNION { { conf[i].ips[e].off :
              e \in {x \in 1..Len(conf[i].ips) : conf[i].ips[x].fam = fam} } :
          i \in {j \in 1..Len(conf) : conf[j].t = "AllowedIPs"} }

\* the lines remove-client cuts out of the registry for a key
ExcisedLines(conf, key) ==
  LET pl == IF key = 0 THEN 0 ELSE PEER_LINE(conf, key)
      ps == IF pl = 0 THEN 0 ELSE PEER_START(conf, pl)
  IN  IF ps = 0 THEN <<>> ELSE SubSeq(conf, ps, PEER_END(conf, pl))

OneOrZero(S) == IF S = {} THEN 0 ELSE Min(S)

\* op, name, exit: the script that ran last, its argument and its exit code
\* ip4, ip6, key : the offsets and the key add-client put into the new block
\* before        : the registry the script started from
\* cut4, cut6    : the offsets of the block remove-client excised (0: none)
\* freed4, freed6: for add-client, cut4 and cut6 of the run right before it
\* count4        : for add-client, the offset the count-and-increment
\*                 add-client would have chosen
\* anyRemoved    : some remove-client has removed a client so far
\* prior         : for a remove-client that follows the successful add-client
\*                 of the same name, wg0.conf before that add-client
\* known         : the client names with a directory before the run
\* again         : for remove-client, the name was removed before and not
\*                 added since
\* removed       : the names removed and not added since
\* ls /etc/wireguard/clients/ : the names with a client directory
KnownClients(cls) == {n \in Names : cls[n].dir}

\* variant: the clients are counted before the directory of the new one exists
CLIENT_IP_increment_early(cls) == Cardinality(KnownClients(cls))

\* CLIENT_COUNT=$(ls -1 /etc/wireguard/clients/ | wc -l);
\* CLIENT_IP="<base>$((CLIENT_COUNT + 1))" - the offset the first add-client
\* chose, counted after mkdir -p $CLIENT_DIR
CLIENT_IP_increment(cls) == Cardinality(KnownClients(cls)) + 1

NoOp ==
  [op |-> "none", name |-> "", exit |-> 0, ip4 |-> 0, ip6 |-> 0, key |-> 0,
   before |-> <<>>, cut4 |-> 0, cut6 |-> 0, freed4 |-> 0, freed6 |-> 0,
   again |-> FALSE, removed |-> {}, known |-> {}, prior |-> <<>>,
   count4 |-> 0, anyRemoved |-> FALSE]

----------------------------------------------------------------------------
(* The server scripts as operations on the gateway *)

\* variant: the sync uploads nothing
S3Sync_skip(conf, bucket) == bucket

\* aws s3 sync /etc/wireguard s3://$S3_BUCKET/wireguard-config/ : the copy of
\* wg0.conf in the bucket after the sync
S3Sync(conf, bucket) == conf

\* server_private_key / server_public_key of the gateway (keys are numbered),
\* their copies in the bucket (0: absent), the bucket's copy of clients/ and
\* of the latest wg0.conf.backup.* ; how: the branch the last boot took, with
\* the bucket's wg0.conf and server key as that boot found them
FirstBoot ==
  [serverKey |-> 1, s3Key |-> 0, s3Clients |-> [n \in Names |-> NoDir],
   s3Backup |-> <<>>, how |-> "new", s3Before |-> <<>>, keyBefore |-> 0]

\* the same aws s3 sync, for the server keys, the client directories and the
\* backup files: add-client uploads without --delete, remove-client uploads
\* with --delete and --exclude "*.backup.*"
S3SyncKeys(b, cls, backup, delete) ==
  [b EXCEPT !.s3Key = b.serverKey,
            !.s3Clients = [n \in Names |->
                             IF cls[n].dir \/ delete THEN cls[n] ELSE @[n]],
            !.s3Backup = IF delete \/ backup = <<>> THEN @ ELSE backup]

EnvConfigs ==
  { [HAS_IPV4_SUBNET |-> h4, VPN_SUBNET_IPV4_BASE |-> h4,
     HAS_IPV6_SUBNET |-> h6, VPN_SUBNET_IPV6 |-> h6] : h4, h6 \in BOOLEAN }

\* sudo /etc/wireguard/add-client.sh <name>
AddClient(name) ==
  /\ nextKey <= MaxKeys
  /\ LET key == nextKey
         run == AddClientRun(wg0conf, env, key)
     IN  /\ nextKey' = nextKey + 1
         /\ clients' = [clients EXCEPT ![name] = [dir |-> TRUE, key |-> key]]
         /\ wg0conf' = run.conf
         /\ s3conf' = IF run.exit = 0 THEN S3Sync(run.conf, s3conf) ELSE s3conf
         /\ lastOp' = [op |-> "add", name |-> name, exit |-> run.exit,
                       ip4 |-> run.ip4, ip6 |-> run.ip6, key |-> key,
                       before |-> wg0conf, cut4 |-> 0, cut6 |-> 0,
                       freed4 |-> lastOp.cut4, freed6 |-> lastOp.cut6,
                       again |-> FALSE,
                       removed |-> lastOp.removed \ {name},
                       known |-> KnownClients(clients), prior |-> <<>>,
                       count4 |-> CLIENT_IP_increment(clients'),
                       anyRemoved |-> lastOp.anyRemoved]
         /\ boot' = IF run.exit = 0
                    THEN S3SyncKeys(boot, clients', wg0backup, FALSE)
                    ELSE boot
  /\ UNCHANGED << env, wg0backup, lambdaEnv, zone, lastRec, probe, procs, recon,
                  fleet, attempts >>

\* variant: the client directory is left in place
RemoveClientDir_keep(cl) == cl

\* what remove-client does to the client directory once the peer section is
\* handled: rm -rf "$CLIENT_DIR"
RemoveClientDir(cl) == NoDir

\* sudo /etc/wireguard/remove-client.sh <name>
RemoveClient(name) ==
  LET cl == clients[name]
      base == [op |-> "remove", name |-> name, exit |-> 1, ip4 |-> 0,
               ip6 |-> 0, key |-> cl.key, before |-> wg0conf,
               cut4 |-> 0, cut6 |-> 0, freed4 |-> 0, freed6 |-> 0,
               again |-> name \in lastOp.removed, removed |-> lastOp.removed,
               known |-> KnownClients(clients),
               prior |-> IF lastOp.op = "add" /\ lastOp.name = name /\
                            lastOp.exit = 0
                           THEN lastOp.before ELSE <<>>,
               count4 |-> 0, anyRemoved |-> lastOp.anyRemoved]
  IN  IF ~cl.dir
        THEN /\ lastOp' = base
             /\ UNCHANGED << env, wg0conf, clients, nextKey, wg0backup, s3conf,
                             lambdaEnv, zone, lastRec, probe, procs, recon,
                             fleet, boot, attempts >>
        ELSE LET cut == ExcisedLines(wg0conf, cl.key)
             IN  /\ wg0backup' = wg0conf
                 /\ wg0conf' = RemovePeerSection(wg0conf, cl.key)
                 /\ clients' = [clients EXCEPT ![name] = RemoveClientDir(cl)]
                 /\ s3conf' = S3Sync(wg0conf', s3conf)
                 /\ boot' = S3SyncKeys(boot, clients', wg0backup', TRUE)
                 /\ lastOp' = [base EXCEPT !.exit = 0,
                                 !.cut4 = OneOrZero(OffsetsIn(cut, 4)),
                                 !.cut6 = OneOrZero(OffsetsIn(cut, 6)),
                                 !.removed = lastOp.removed \cup {name},
                                 !.anyRemoved = TRUE]
                 /\ UNCHANGED << env, nextKey, lambdaEnv, zone, lastRec, probe,
                                 procs, recon, fleet, attempts >>

----------------------------------------------------------------------------
(* The DNS updater lambda *)

\* parseInt(process.env.DNS_RECORD_TTL || '30', 10)
DnsRecordTtl == 30

InstanceIds == {1, 2}

\* what DescribeInstances answers for an instance: an address is named after
\* the instance that holds it, 0 stands for an absent field
\* (a failed call and an unknown instance carry no address)
Descriptions(id) ==
  {d \in [throws : BOOLEAN, found : BOOLEAN, PublicIpAddress : {0, id},
          Ipv6Address : {0, id}, NetworkInterfaceIpv6 : {0, id}] :
     /\ d.throws => ~d.found
     /\ ~d.found => d.PublicIpAddress = 0 /\ d.Ipv6Address = 0
                                         /\ d.NetworkInterfaceIpv6 = 0}

\* variant: fails as soon as one required family has no address
getInstanceAddresses_allRequired(desc, needsIpv4, needsIpv6) ==
  IF desc.throws THEN [throws |-> TRUE, ipv4 |-> 0, ipv6 |-> 0]
  ELSE LET ipv4 == IF desc.found /\ needsIpv4 THEN desc.PublicIpAddress ELSE 0
           ipv6 == IF desc.found /\ needsIpv6
                     THEN IF desc.Ipv6Address # 0 THEN desc.Ipv6Address
                          ELSE desc.NetworkInterfaceIpv6
                     ELSE 0
       IN  IF (needsIpv4 /\ ipv4 = 0) \/ (needsIpv6 /\ ipv6 = 0)
             THEN [throws |-> TRUE, ipv4 |-> 0, ipv6 |-> 0]
             ELSE [throws |-> FALSE, ipv4 |-> ipv4, ipv6 |-> ipv6]

\* getInstanceAddresses(instanceId, needsIpv4, needsIpv6)
getInstanceAddresses(desc, needsIpv4, needsIpv6) ==
  IF desc.throws THEN [throws |-> TRUE, ipv4 |-> 0, ipv6 |-> 0]
  ELSE LET ipv4 == IF desc.found /\ needsIpv4 THEN desc.PublicIpAddress ELSE 0
           ipv6 == IF desc.found /\ needsIpv6
                     THEN IF desc.Ipv6Address # 0 THEN desc.Ipv6Address
                          ELSE desc.NetworkInterfaceIpv6
                     ELSE 0
       IN  IF (needsIpv4 /\ ipv4 = 0) /\ (needsIpv6 /\ ipv6 = 0)
             THEN [throws |-> TRUE, ipv4 |-> 0, ipv6 |-> 0]
             ELSE [throws |-> FALSE, ipv4 |-> ipv4, ipv6 |-> ipv6]

ResourceRecordSet(type, value) ==
  [Name |-> "DOMAIN_NAME", Type |-> type, TTL |-> DnsRecordTtl, Value |-> value]

\* the changes updateDnsRecords prepares, every one with Action UPSERT
Changes(addresses) ==
  (IF addresses.ipv4 # 0 THEN << ResourceRecordSet("A", addresses.ipv4) >> ELSE <<>>) \o
  (IF addresses.ipv6 # 0 THEN << ResourceRecordSet("AAAA", addresses.ipv6) >> ELSE <<>>)

\* variant: the record set is added next to the one the zone holds
Upsert_create(z, rrs) == z \cup {rrs}

\* Action UPSERT on the hosted zone: the record set of that name and type is
\* created, or replaced when there is one
Upsert(z, rrs) ==
  {r \in z : ~(r.Name = rrs.Name /\ r.Type = rrs.Type)} \cup {rrs}

RECURSIVE ApplyChanges(_, _)
ApplyChanges(z, changes) ==
  IF changes = <<>> THEN z
  ELSE ApplyChanges(Upsert(z, Head(changes)), Tail(changes))

\* variant: the changes are sent one by one, the first one gets through
\* before the call fails
updateDnsRecords_oneByOne(z, addresses, hostedZoneId, zoneFound, sendOk) ==
  IF ~hostedZoneId /\ ~zoneFound THEN [throws |-> TRUE, zone |-> z, sent |-> <<>>]
  ELSE LET changes == Changes(addresses)
       IN  IF changes = <<>> THEN [throws |-> FALSE, zone |-> z, sent |-> <<>>]
           ELSE IF ~sendOk
                  THEN [throws |-> TRUE, zone |-> Upsert(z, Head(changes)),
                        sent |-> <<>>]
           ELSE [throws |-> FALSE, zone |-> ApplyChanges(z, changes),
                 sent |-> changes]

\* updateDnsRecords(domainName, addresses, hostedZoneId, ttl); zoneFound is
\* the outcome of findHostedZoneId and sendOk that of the Route 53 call
updateDnsRecords(z, addresses, hostedZoneId, zoneFound, sendOk) ==
  IF ~hostedZoneId /\ ~zoneFound THEN [throws |-> TRUE, zone |-> z, sent |-> <<>>]
  ELSE LET changes == Changes(addresses)
       IN  IF changes = <<>> THEN [throws |-> FALSE, zone |-> z, sent |-> <<>>]
           ELSE IF ~sendOk THEN [throws |-> TRUE, zone |-> z, sent |-> <<>>]
           ELSE [throws |-> FALSE, zone |-> ApplyChanges(z, changes),
                 sent |-> changes]

StatusCodes == {"InProgress", "Successful", "Failed", "Cancelled"}

NoDescription ==
  [throws |-> FALSE, found |-> FALSE, PublicIpAddress |-> 0,
   Ipv6Address |-> 0, NetworkInterfaceIpv6 |-> 0]

\* statusCode           : the statusCode of the result (0: no invocation yet)
\* StatusCode, EC2InstanceId : the event
\* desc, zoneFound, sendOk   : what EC2 and Route 53 answered
\* ipv4, ipv6, sent     : the addresses resolved and the changes sent
\* before               : the hosted zone before the invocation
NoRec ==
  [statusCode |-> 0, StatusCode |-> "", EC2InstanceId |-> 0,
   desc |-> NoDescription, zoneFound |-> FALSE, sendOk |-> FALSE,
   ipv4 |-> 0, ipv6 |-> 0, sent |-> <<>>, before |-> {}]

\* variant: every event that names an instance is handled as a launch
HandlesLaunch_any(StatusCode, EC2InstanceId) == EC2InstanceId # 0

\* statusCode === 'InProgress' || statusCode === 'Successful', with an instance id
HandlesLaunch(StatusCode, EC2InstanceId) ==
  StatusCode \in {"InProgress", "Successful"} /\ EC2InstanceId # 0

\* the body of handler(event): the result it returns and the zone it leaves
HandlerRun(StatusCode, EC2InstanceId, desc, zoneFound, sendOk) ==
  LET rec == [NoRec EXCEPT !.StatusCode = StatusCode,
                           !.EC2InstanceId = EC2InstanceId, !.before = zone,
                           !.desc = desc, !.zoneFound = zoneFound,
                           !.sendOk = sendOk]
  IN
  /\ IF ~lambdaEnv.DOMAIN_NAME
       THEN /\ lastRec' = [rec EXCEPT !.statusCode = 400]
            /\ zone' = zone
       ELSE IF HandlesLaunch(StatusCode, EC2InstanceId)
         THEN LET a == getInstanceAddresses(desc, lambdaEnv.HAS_IPV4_SUBNET,
                                            lambdaEnv.HAS_IPV6_SUBNET)
                  u == updateDnsRecords(zone, a, lambdaEnv.HOSTED_ZONE_ID,
                                        zoneFound, sendOk)
              IN  IF a.throws
                    THEN /\ lastRec' = [rec EXCEPT !.statusCode = 500]
                         /\ zone' = zone
                    ELSE /\ lastRec' = [rec EXCEPT
                                          !.statusCode = IF u.throws THEN 500 ELSE 200,
                                          !.ipv4 = a.ipv4, !.ipv6 = a.ipv6,
                                          !.sent = u.sent]
                         /\ zone' = u.zone
         ELSE /\ lastRec' = [rec EXCEPT !.statusCode = 200]
              /\ zone' = zone

\* handler(event): one invocation of the lambda, from the event to the result
Handler(StatusCode, EC2InstanceId, desc, zoneFound, sendOk) ==
  /\ HandlerRun(StatusCode, EC2InstanceId, desc, zoneFound, sendOk)
  /\ UNCHANGED << env, wg0conf, clients, nextKey, wg0backup, s3conf, lastOp,
                  lambdaEnv, probe, procs, recon, fleet, boot, attempts >>

\* (findHostedZoneId is only called without HOSTED_ZONE_ID, and no instance
\* is described for an event that names none)
Invoke ==
  \E StatusCode \in StatusCodes, id \in InstanceIds \cup {0},
     zoneFound \in IF lambdaEnv.HOSTED_ZONE_ID THEN {FALSE} ELSE BOOLEAN,
     sendOk \in BOOLEAN :
       \E desc \in IF id = 0 THEN {NoDescription} ELSE Descriptions(id) :
          Handler(StatusCode, id, desc, zoneFound, sendOk)

LambdaEnvs ==
  [DOMAIN_NAME : BOOLEAN, HOSTED_ZONE_ID : BOOLEAN,
   HAS_IPV4_SUBNET : BOOLEAN, HAS_IPV6_SUBNET : BOOLEAN]

----------------------------------------------------------------------------
(* The region status probe *)

\* what the commands the probe runs answer:
\* region        : the argument of get_region_comprehensive_status
\* stacks        : aws cloudformation list-stacks ... starts_with RegionHop
\* compute       : stack_exists of the compute stack
\* outputs       : get_stack_outputs of the compute stack
\* asg_name      : the VPNServerAutoScalingGroup output
\* capacity      : AutoScalingGroups[0].DesiredCapacity as text
\* dns_domain    : the VPNServerDomain output
\* resolver      : the resolver installed on the operator's machine
\* resolved      : what the resolver prints for dns_domain
\* nc            : exit code of the bounded connectivity check
ProbeInputs ==
  [region : {"", "eu-central-1"},
   stacks : {"", "None", "RegionHop-Infrastructure"},
   compute : BOOLEAN,
   outputs : {"", "null", "json"},
   asg_name : {"", "null", "asg"},
   capacity : {"", "None", "0", "1", "2"},
   dns_domain : {"", "null", "vpn.example.com"},
   resolver : {"dig", "nslookup", "none"},
   resolved : {"", "10.1.2.3", "alias.example.com."},
   nc : {0, 1, 124}]

\* get_asg_desired_capacity: the text it prints
get_asg_desired_capacity(in) ==
  IF in.region = "" THEN ""
  ELSE IF ~in.compute THEN "0"
  ELSE IF in.outputs \in {"", "null"} THEN "0"
  ELSE IF in.asg_name \in {"", "null"} THEN "0"
  ELSE IF in.capacity \in {"", "None", "null"} THEN "0"
  ELSE in.capacity

\* get_vpn_server_ip: the text it prints
get_vpn_server_ip(in) ==
  IF in.region = "" THEN ""
  ELSE IF in.outputs \in {"", "null"} THEN ""
  ELSE IF in.dns_domain \notin {"", "null"}
    THEN IF in.resolver \in {"dig", "nslookup"} /\ in.resolved = "10.1.2.3"
           THEN in.resolved
           ELSE in.dns_domain
    ELSE ""

\* check_vpn_connectivity: its exit code
check_vpn_connectivity(in, server_ip) ==
  IF in.region = "" \/ server_ip = "" THEN 1 ELSE in.nc

\* variant: the connectivity check runs before the desired capacity is looked at
get_region_comprehensive_status_probeFirst(in) ==
  IF in.region = "" THEN [rc |-> 1, out |-> ""]
  ELSE IF in.stacks = "" \/ in.stacks = "None" THEN [rc |-> 0, out |-> "UNDEPLOYED"]
  ELSE LET vpn_ip == get_vpn_server_ip(in)
       IN  IF vpn_ip # "" /\ vpn_ip # "null" /\ check_vpn_connectivity(in, vpn_ip) = 0
             THEN [rc |-> 0, out |-> "RUNNING"]
             ELSE IF get_asg_desired_capacity(in) = "0"
                    THEN [rc |-> 0, out |-> "STOPPED"]
                    ELSE [rc |-> 0, out |-> "UNHEALTHY"]

\* get_region_comprehensive_status: exit code and the text it prints
get_region_comprehensive_status(in) ==
  IF in.region = "" THEN [rc |-> 1, out |-> ""]
  ELSE IF in.stacks = "" \/ in.stacks = "None" THEN [rc |-> 0, out |-> "UNDEPLOYED"]
  ELSE IF get_asg_desired_capacity(in) = "0" THEN [rc |-> 0, out |-> "STOPPED"]
  ELSE LET vpn_ip == get_vpn_server_ip(in)
       IN  IF vpn_ip = "" \/ vpn_ip = "null" THEN [rc |-> 0, out |-> "UNHEALTHY"]
           ELSE IF check_vpn_connectivity(in, vpn_ip) = 0
                  THEN [rc |-> 0, out |-> "RUNNING"]
                  ELSE [rc |-> 0, out |-> "UNHEALTHY"]

NoProbe == [in |-> [region |-> "", stacks |-> "", compute |-> FALSE,
                    outputs |-> "", asg_name |-> "", capacity |-> "",
                    dns_domain |-> "", resolver |-> "none", resolved |-> "",
                    nc |-> 0],
            done |-> FALSE, rc |-> 0, out |-> ""]

\* one status query
GetStatus ==
  /\ ~probe.done
  /\ LET r == get_region_comprehensive_status(probe.in)
     IN  probe' = [probe EXCEPT !.done = TRUE, !.rc = r.rc, !.out = r.out]
  /\ UNCHANGED << env, wg0conf, clients, nextKey, wg0backup, s3conf, lastOp,
                  lambdaEnv, zone, lastRec, procs, recon, fleet, boot,
                  attempts >>

----------------------------------------------------------------------------
(* add-client, step by step *)

Procs == {1, 2}

\* pc   : "idle", "keys" (directory and key pair written), "scanned"
\*        (addresses chosen), "appended" (peer block written), "done"
\*        (restarted and synced), "failed" (exit 1)
\* seen : wg0.conf as the process read it when it chose its addresses
NoProc ==
  [pc |-> "idle", name |-> "", key |-> 0, ip4 |-> 0, ip6 |-> 0,
   seen |-> <<>>]

\* mkdir -p $CLIENT_DIR; wg genkey | tee client_private_key | wg pubkey
StartAdd(p, name) ==
  /\ procs[p].pc \in {"idle", "done", "failed"}
  /\ nextKey <= MaxKeys
  /\ nextKey' = nextKey + 1
  /\ clients' = [clients EXCEPT ![name] = [dir |-> TRUE, key |-> nextKey]]
  /\ procs' = [procs EXCEPT ![p] = [NoProc EXCEPT !.pc = "keys",
                                                  !.name = name,
                                                  !.key = nextKey]]
  /\ UNCHANGED << env, wg0conf, wg0backup, s3conf, lastOp, lambdaEnv, zone,
                  lastRec, probe, recon, fleet, boot, attempts >>

\* CLIENT_IPV4=$(get_next_available_ipv4), CLIENT_IPV6=$(get_next_available_ipv6)
\* and the exits on a failed assignment
ScanAdd(p) ==
  /\ procs[p].pc = "keys"
  /\ LET run == AddClientRun(wg0conf, env, procs[p].key)
     IN  procs' = [procs EXCEPT ![p] =
                     IF run.exit # 0
                       THEN [@ EXCEPT !.pc = "failed", !.seen = wg0conf]
                       ELSE [@ EXCEPT !.pc = "scanned", !.ip4 = run.ip4,
                                      !.ip6 = run.ip6, !.seen = wg0conf]]
  /\ UNCHANGED << env, wg0conf, clients, nextKey, wg0backup, s3conf, lastOp,
                  lambdaEnv, zone, lastRec, probe, recon, fleet, boot,
                  attempts >>

\* variant: the addresses are chosen again when the block is written
AppendPeer_rescan(conf, key, ip4, ip6) == AddClientRun(conf, env, key).conf

\* cat >> /etc/wireguard/wg0.conf with the addresses chosen at the scan
AppendPeer(conf, key, ip4, ip6) == conf \o PeerBlock(key, ip4, ip6)

AppendAdd(p) ==
  /\ procs[p].pc = "scanned"
  /\ wg0conf' = AppendPeer(wg0conf, procs[p].key, procs[p].ip4, procs[p].ip6)
  /\ procs' = [procs EXCEPT ![p].pc = "appended"]
  /\ UNCHANGED << env, clients, nextKey, wg0backup, s3conf, lastOp,
                  lambdaEnv, zone, lastRec, probe, recon, fleet, boot,
                  attempts >>

\* systemctl restart wg-quick@wg0; aws s3 sync /etc/wireguard ...
FinishAdd(p) ==
  /\ procs[p].pc = "appended"
  /\ s3conf' = S3Sync(wg0conf, s3conf)
  /\ boot' = S3SyncKeys(boot, clients, wg0backup, FALSE)
  /\ procs' = [procs EXCEPT ![p].pc = "done"]
  /\ UNCHANGED << env, wg0conf, clients, nextKey, wg0backup, lastOp,
                  lambdaEnv, zone, lastRec, probe, recon, fleet, attempts >>

----------------------------------------------------------------------------
(* remove-client, step by step *)

\* pc   : "read" (the directory exists, the key is read and the backup copy
\*        made), "spliced" (/tmp/wg0_temp written), "moved" (wg0.conf
\*        replaced, or left alone when no section was found), "removed"
\*        (directory deleted, restarted and synced), "absent" (exit 1)
\* seen : /tmp/wg0_temp
\* [ ! -d "$CLIENT_DIR" ] ... CLIENT_PUBLIC_KEY=$(cat ...); cp wg0.conf wg0.conf.backup.*
StartRemove(p, name) ==
  /\ procs[p].pc \in {"idle", "removed", "absent"}
  /\ IF ~clients[name].dir
       THEN /\ procs' = [procs EXCEPT ![p] = [NoProc EXCEPT !.pc = "absent",
                                                            !.name = name]]
            /\ wg0backup' = wg0backup
       ELSE /\ procs' = [procs EXCEPT ![p] = [NoProc EXCEPT
                                                !.pc = "read", !.name = name,
                                                !.key = clients[name].key]]
            /\ wg0backup' = wg0conf
  /\ UNCHANGED << env, wg0conf, clients, nextKey, s3conf, lastOp, lambdaEnv,
                  zone, lastRec, probe, recon, fleet, boot, attempts >>

\* PEER_LINE, PEER_START, PEER_END and head / tail into /tmp/wg0_temp, from
\* wg0.conf as it is now (<<>>: no section found, no temporary file)
SpliceTemp(conf, key) ==
  LET pl == PEER_LINE(conf, key)
  IN  IF key = 0 \/ pl = 0 \/ PEER_START(conf, pl) = 0
        THEN <<>>
        ELSE RemovePeerSection(conf, key)

SpliceRemove(p) ==
  /\ procs[p].pc = "read"
  /\ LET tmp == SpliceTemp(wg0conf, procs[p].key)
     IN  procs' = [procs EXCEPT ![p] =
                     IF tmp = <<>>
                       THEN [@ EXCEPT !.pc = "moved"]
                       ELSE [@ EXCEPT !.pc = "spliced", !.seen = tmp]]
  /\ UNCHANGED << env, wg0conf, clients, nextKey, wg0backup, s3conf, lastOp,
                  lambdaEnv, zone, lastRec, probe, recon, fleet, boot,
                  attempts >>

\* mv /tmp/wg0_temp /etc/wireguard/wg0.conf
MoveRemove(p) ==
  /\ procs[p].pc = "spliced"
  /\ wg0conf' = procs[p].seen
  /\ procs' = [procs EXCEPT ![p].pc = "moved"]
  /\ UNCHANGED << env, clients, nextKey, wg0backup, s3conf, lastOp,
                  lambdaEnv, zone, lastRec, probe, recon, fleet, boot,
                  attempts >>

\* rm -rf "$CLIENT_DIR"; systemctl restart wg-quick@wg0; aws s3 sync --delete
FinishRemove(p) ==
  /\ procs[p].pc = "moved"
  /\ clients' = [clients EXCEPT ![procs[p].name] = RemoveClientDir(@)]
  /\ s3conf' = S3Sync(wg0conf, s3conf)
  /\ boot' = S3SyncKeys(boot, clients', wg0backup, TRUE)
  /\ procs' = [procs EXCEPT ![p].pc = "removed"]
  /\ UNCHANGED << env, wg0conf, nextKey, wg0backup, lastOp, lambdaEnv, zone,
                  lastRec, probe, recon, fleet, attempts >>

----------------------------------------------------------------------------
(* One reconciliation, step by step *)

\* time is counted in steps of ten seconds
\* setTimeout(resolve, 10000) before the lookup
SleepTicks == 1
\* timeout: cdk.Duration.minutes(5) of the lambda
TimeoutTicks == 30
\* the clock stops here
MaxTime == 4

\* pc       : "idle", "sleeping" (the handler waits before its lookup),
\*            "done" (the handler has returned)
\* id       : the instance of the notification
\* now      : the clock
\* started  : when the notification arrived
\* desc     : what DescribeInstances answers for the instance now
\* at4, at6 : when the instance got its IPv4 / IPv6 address (-1: not yet)
\* lookups  : the DescribeInstances calls the handler has made
NoRecon ==
  [pc |-> "idle", id |-> 0, now |-> 0, started |-> 0,
   desc |-> [NoDescription EXCEPT !.found = TRUE],
   at4 |-> -1, at6 |-> -1, lookups |-> 0]

\* all the variables the reconciliation leaves alone
ReconUnchanged ==
  UNCHANGED << env, wg0conf, clients, nextKey, wg0backup, s3conf, lastOp,
               lambdaEnv, probe, procs, fleet, boot, attempts >>

Tick ==
  /\ recon.now < MaxTime
  /\ recon' = [recon EXCEPT !.now = @ + 1]
  /\ UNCHANGED << zone, lastRec >>
  /\ ReconUnchanged

\* EC2 gives the launching instance its public address of one family
AssignAddress(type) ==
  /\ IF type = "A" THEN recon.at4 = -1 ELSE recon.at6 = -1
  /\ recon' = IF type = "A"
                THEN [recon EXCEPT !.at4 = recon.now,
                                   !.desc.PublicIpAddress = 1]
                ELSE [recon EXCEPT !.at6 = recon.now,
                                   !.desc.Ipv6Address = 1]
  /\ UNCHANGED << zone, lastRec >>
  /\ ReconUnchanged

\* the launch notification of instance 1 reaches the handler, which starts
\* its wait
Notify(StatusCode) ==
  /\ recon.pc = "idle"
  /\ HandlesLaunch(StatusCode, 1)
  /\ recon' = [recon EXCEPT !.pc = "sleeping", !.id = 1,
                            !.started = recon.now]
  /\ UNCHANGED << zone, lastRec >>
  /\ ReconUnchanged

\* after the wait: getInstanceAddresses, updateDnsRecords, return
Lookup(zoneFound, sendOk) ==
  /\ recon.pc = "sleeping"
  /\ recon.now >= recon.started + SleepTicks
  /\ HandlerRun("Successful", recon.id, recon.desc, zoneFound, sendOk)
  /\ recon' = [recon EXCEPT !.pc = "done", !.lookups = @ + 1]
  /\ ReconUnchanged

----------------------------------------------------------------------------
(* Boot of a replacement instance *)

\* the server keys the gateways can generate
MaxServerKeys == 3

\* variant: the bucket is never found to hold a configuration
check_s3_config_never(b, bucket) == FALSE

\* check_s3_config: server_private_key, server_public_key and wg0.conf are
\* all in the bucket
check_s3_config(b, bucket) == b.s3Key # 0 /\ bucket # <<>>

\* the user data of a new instance, on an empty /etc/wireguard: restore the
\* bucket's wireguard-config/ when check_s3_config succeeds, otherwise
\* generate server keys and write a wg0.conf with the [Interface] block
UserData ==
  /\ IF check_s3_config(boot, s3conf)
       THEN /\ wg0conf' = s3conf
            /\ clients' = boot.s3Clients
            /\ wg0backup' = boot.s3Backup
            /\ boot' = [boot EXCEPT !.serverKey = boot.s3Key,
                                    !.how = "restored",
                                    !.s3Before = s3conf,
                                    !.keyBefore = boot.s3Key]
       ELSE /\ boot.serverKey < MaxServerKeys
            /\ wg0conf' = InterfaceBlock
            /\ clients' = [n \in Names |-> NoDir]
            /\ wg0backup' = <<>>
            /\ boot' = [boot EXCEPT !.serverKey = @ + 1,
                                    !.how = "new",
                                    !.s3Before = s3conf,
                                    !.keyBefore = boot.s3Key]
  /\ lastOp' = [NoOp EXCEPT !.op = "boot"]
  /\ UNCHANGED << env, nextKey, s3conf, lambdaEnv, zone, lastRec, probe, procs,
                  recon, fleet, attempts >>

----------------------------------------------------------------------------
(* The fleet of a region *)

Regions == {"eu-central-1", "us-east-1", "ap-southeast-2"}

\* no compute stack in the region
NoStack ==
  [deployed |-> FALSE, minCapacity |-> 0, maxCapacity |-> 0, desired |-> 0,
   instances |-> 0, cmd |-> "none", rc |-> 0]

\* minCapacity: 0, maxCapacity: 1
MinCapacity == 0
MaxCapacity == 1

\* new autoscaling.AutoScalingGroup(...): no desiredCapacity is given, the
\* group starts at its minimum
WireGuardAutoScalingGroup ==
  [deployed |-> TRUE, minCapacity |-> MinCapacity, maxCapacity |-> MaxCapacity,
   desired |-> MinCapacity, instances |-> 0, cmd |-> "deploy", rc |-> 0]

\* autoscaling set-desired-capacity: the service refuses a capacity outside
\* the bounds of the group
SetDesiredCapacity(asg, n) ==
  IF n \in asg.minCapacity..asg.maxCapacity
    THEN [asg EXCEPT !.desired = n, !.rc = 0]
    ELSE [asg EXCEPT !.rc = 1]

\* SetDesiredCapacityLambda: only a 'Create' request sets the capacity
SetDesiredCapacityLambda(asg, RequestType) ==
  IF RequestType = "Create" THEN SetDesiredCapacity(asg, 1) ELSE asg

\* get_asg_name: fails unless the compute stack of the region exists
get_asg_name(asg) == asg.deployed

\* variant: stop reports success without changing the capacity
cmd_stop_keep(asg) ==
  IF ~get_asg_name(asg) THEN [asg EXCEPT !.cmd = "stop", !.rc = 1]
  ELSE [asg EXCEPT !.cmd = "stop", !.rc = 0]

\* hop stop <region>
cmd_stop(asg) ==
  IF ~get_asg_name(asg) THEN [asg EXCEPT !.cmd = "stop", !.rc = 1]
  ELSE SetDesiredCapacity([asg EXCEPT !.cmd = "stop"], 0)

\* hop start <region>
cmd_start(asg) ==
  IF ~get_asg_name(asg) THEN [asg EXCEPT !.cmd = "start", !.rc = 1]
  ELSE SetDesiredCapacity([asg EXCEPT !.cmd = "start"], 1)

FleetUnchanged ==
  UNCHANGED << env, wg0conf, clients, nextKey, wg0backup, s3conf, lastOp,
               lambdaEnv, zone, lastRec, probe, procs, recon, boot, attempts >>

\* cdk deploy of the compute stack: the first deployment creates the group and
\* runs the custom resource with 'Create' (a failure rolls the stack back), a
\* later one updates the group's bounds and runs it with 'Update'
Deploy(r, ok) ==
  /\ fleet' = [fleet EXCEPT ![r] =
        IF ~fleet[r].deployed
          THEN IF ok THEN SetDesiredCapacityLambda(WireGuardAutoScalingGroup, "Create")
                     ELSE [NoStack EXCEPT !.cmd = "deploy", !.rc = 1]
          ELSE SetDesiredCapacityLambda(
                 [fleet[r] EXCEPT !.minCapacity = MinCapacity,
                                  !.maxCapacity = MaxCapacity,
                                  !.cmd = "deploy", !.rc = 0], "Update")]
  /\ FleetUnchanged

Start(r) == fleet' = [fleet EXCEPT ![r] = cmd_start(fleet[r])] /\ FleetUnchanged

Stop(r) == fleet' = [fleet EXCEPT ![r] = cmd_stop(fleet[r])] /\ FleetUnchanged

\* the group launches an instance while it has fewer than desired
Launch(r) ==
  /\ fleet[r].deployed /\ fleet[r].instances < fleet[r].desired
  /\ fleet' = [fleet EXCEPT ![r].instances = @ + 1]
  /\ FleetUnchanged

\* the group terminates an instance while it has more than desired
Terminate(r) ==
  /\ fleet[r].deployed /\ fleet[r].instances > fleet[r].desired
  /\ fleet' = [fleet EXCEPT ![r].instances = @ - 1]
  /\ FleetUnchanged

\* a spot instance is reclaimed; the group replaces it with Launch
Interrupt(r) ==
  /\ fleet[r].deployed /\ fleet[r].instances > 0
  /\ fleet' = [fleet EXCEPT ![r].instances = @ - 1]
  /\ FleetUnchanged

----------------------------------------------------------------------------
(* Two launches, two lambda runs *)

\* pc         : "idle", "sleeping" (notified, waiting before the lookup),
\*              "resolved" (getInstanceAddresses returned), "done"
\* ipv4, ipv6 : the addresses the attempt resolved
\* statusCode : the result of the attempt (0: not returned yet)
NoAttempt == [pc |-> "idle", ipv4 |-> 0, ipv6 |-> 0, statusCode |-> 0]

\* launched : the instances launched so far; the group holds at most one
\*            instance, so the latest one launched is the one that runs
\* run      : the lambda invocation for the launch of each instance
NoAttempts == [launched |-> 0, run |-> [i \in InstanceIds |-> NoAttempt]]

AttemptsUnchanged ==
  UNCHANGED << env, wg0conf, clients, nextKey, wg0backup, s3conf, lastOp,
               lambdaEnv, lastRec, probe, procs, recon, fleet, boot >>

\* the group launches the next instance in place of the one before, and the
\* launch notification starts an invocation, which begins its wait
LaunchNext ==
  /\ attempts.launched < Cardinality(InstanceIds)
  /\ LET id == attempts.launched + 1
     IN  /\ HandlesLaunch("Successful", id)
         /\ attempts' = [attempts EXCEPT !.launched = id,
                                         !.run[id].pc = "sleeping"]
  /\ zone' = zone
  /\ AttemptsUnchanged

\* what DescribeInstances can answer for the instance: a replaced instance
\* has no public address any more
DescriptionsNow(id) ==
  IF id = attempts.launched
    THEN {d \in Descriptions(id) : ~d.throws}
    ELSE {d \in Descriptions(id) : ~d.throws /\ d.PublicIpAddress = 0 /\
                                   d.Ipv6Address = 0 /\
                                   d.NetworkInterfaceIpv6 = 0}

\* const addresses = await getInstanceAddresses(...)
Resolve(id) ==
  /\ attempts.run[id].pc = "sleeping"
  /\ \E desc \in DescriptionsNow(id) :
     LET a == getInstanceAddresses(desc, lambdaEnv.HAS_IPV4_SUBNET,
                                   lambdaEnv.HAS_IPV6_SUBNET)
     IN  attempts' = [attempts EXCEPT !["run"][id] =
                        IF a.throws
                          THEN [@ EXCEPT !.pc = "done", !.statusCode = 500]
                          ELSE [@ EXCEPT !.pc = "resolved", !.ipv4 = a.ipv4,
                                         !.ipv6 = a.ipv6]]
  /\ zone' = zone
  /\ AttemptsUnchanged

\* await updateDnsRecords(...) and the return of the handler
UpsertAttempt(id, zoneFound, sendOk) ==
  /\ attempts.run[id].pc = "resolved"
  /\ LET u == updateDnsRecords(zone, attempts.run[id],
                               lambdaEnv.HOSTED_ZONE_ID, zoneFound, sendOk)
     IN  /\ zone' = u.zone
         /\ attempts' = [attempts EXCEPT !["run"][id] =
                           [@ EXCEPT !.pc = "done",
                                     !.statusCode = IF u.throws THEN 500
                                                                ELSE 200]]
  /\ AttemptsUnchanged

----------------------------------------------------------------------------
(* Specifications *)

PeersIdle ==
  /\ wg0conf = InterfaceBlock
  /\ clients = [n \in Names |-> NoDir]
  /\ nextKey = 1
  /\ wg0backup = <<>>
  /\ s3conf = <<>>
  /\ lastOp = NoOp
  /\ procs = [p \in Procs |-> NoProc]
  /\ boot = FirstBoot

DnsIdle ==
  /\ zone = {} /\ lastRec = NoRec /\ recon = NoRecon
  /\ attempts = NoAttempts

FleetIdle == fleet = [r \in Regions |-> NoStack]

\* the gateway after first boot, under each family configuration
Init ==
  /\ env \in EnvConfigs
  /\ PeersIdle
  /\ lambdaEnv = [DOMAIN_NAME |-> TRUE, HOSTED_ZONE_ID |-> TRUE,
                  HAS_IPV4_SUBNET |-> TRUE, HAS_IPV6_SUBNET |-> TRUE]
  /\ DnsIdle
  /\ FleetIdle
  /\ probe = NoProbe

Next == \E name \in Names : AddClient(name) \/ RemoveClient(name)

Spec == Init /\ [][Next]_vars

\* two shells running add-client on one gateway, in any interleaving of
\* their steps
NextRace ==
  \E p \in Procs :
     \/ \E name \in Names : StartAdd(p, name)
     \/ ScanAdd(p)
     \/ AppendAdd(p)
     \/ FinishAdd(p)

SpecRace == Init /\ [][NextRace]_vars

\* the lambda and an empty hosted zone, under each lambda configuration
\* with a domain name
InitRecon ==
  /\ env = [HAS_IPV4_SUBNET |-> TRUE, VPN_SUBNET_IPV4_BASE |-> TRUE,
            HAS_IPV6_SUBNET |-> TRUE, VPN_SUBNET_IPV6 |-> TRUE]
  /\ PeersIdle
  /\ lambdaEnv \in {e \in LambdaEnvs : e.DOMAIN_NAME}
  /\ DnsIdle
  /\ FleetIdle
  /\ probe = NoProbe

\* one instance launch: the clock, EC2 and the handler
NextRecon ==
  \/ Tick
  \/ \E type \in {"A", "AAAA"} : AssignAddress(type)
  \/ \E StatusCode \in StatusCodes : Notify(StatusCode)
  \/ \E zoneFound \in IF lambdaEnv.HOSTED_ZONE_ID THEN {FALSE} ELSE BOOLEAN,
        sendOk \in BOOLEAN : Lookup(zoneFound, sendOk)

SpecRecon == InitRecon /\ [][NextRecon]_vars

\* the lambda and an empty hosted zone, under each lambda configuration
InitDns ==
  /\ env = [HAS_IPV4_SUBNET |-> TRUE, VPN_SUBNET_IPV4_BASE |-> TRUE,
            HAS_IPV6_SUBNET |-> TRUE, VPN_SUBNET_IPV6 |-> TRUE]
  /\ PeersIdle
  /\ lambdaEnv \in LambdaEnvs
  /\ DnsIdle
  /\ FleetIdle
  /\ probe = NoProbe

NextDns == Invoke

SpecDns == InitDns /\ [][NextDns]_vars

\* one status query for each answer of the commands it runs
InitStatus ==
  /\ env = [HAS_IPV4_SUBNET |-> TRUE, VPN_SUBNET_IPV4_BASE |-> TRUE,
            HAS_IPV6_SUBNET |-> TRUE, VPN_SUBNET_IPV6 |-> TRUE]
  /\ PeersIdle
  /\ lambdaEnv = [DOMAIN_NAME |-> TRUE, HOSTED_ZONE_ID |-> TRUE,
                  HAS_IPV4_SUBNET |-> TRUE, HAS_IPV6_SUBNET |-> TRUE]
  /\ DnsIdle
  /\ FleetIdle
  /\ probe \in [in : ProbeInputs, done : {FALSE}, rc : {0}, out : {""}]

NextStatus == GetStatus

SpecStatus == InitStatus /\ [][NextStatus]_vars

\* add-client and remove-client on a gateway whose instance can be replaced
InitBoot ==
  /\ env = [HAS_IPV4_SUBNET |-> TRUE, VPN_SUBNET_IPV4_BASE |-> TRUE,
            HAS_IPV6_SUBNET |-> FALSE, VPN_SUBNET_IPV6 |-> FALSE]
  /\ PeersIdle
  /\ lambdaEnv = [DOMAIN_NAME |-> TRUE, HOSTED_ZONE_ID |-> TRUE,
                  HAS_IPV4_SUBNET |-> TRUE, HAS_IPV6_SUBNET |-> FALSE]
  /\ DnsIdle
  /\ FleetIdle
  /\ probe = NoProbe

\* the names used where two suffice
TwoNames == {"a", "b"}

NextBoot ==
  \/ \E name \in TwoNames : AddClient(name) \/ RemoveClient(name)
  \/ UserData

SpecBoot == InitBoot /\ [][NextBoot]_vars

\* one administrator removes clients while another adds clients
Remover == 1
Adder == 2

NextLost ==
  \/ \E name \in TwoNames : StartRemove(Remover, name)
  \/ SpliceRemove(Remover)
  \/ MoveRemove(Remover)
  \/ FinishRemove(Remover)
  \/ \E name \in TwoNames : StartAdd(Adder, name)
  \/ ScanAdd(Adder)
  \/ AppendAdd(Adder)
  \/ FinishAdd(Adder)

SpecLost == InitBoot /\ [][NextLost]_vars

\* two launches one after the other, their invocations step by step
NextOverlap ==
  \/ LaunchNext
  \/ \E id \in InstanceIds : Resolve(id)
  \/ \E id \in InstanceIds,
        zoneFound \in IF lambdaEnv.HOSTED_ZONE_ID THEN {FALSE} ELSE BOOLEAN,
        sendOk \in BOOLEAN : UpsertAttempt(id, zoneFound, sendOk)

SpecOverlap == InitRecon /\ [][NextOverlap]_vars

\* the fleets of the regions: deploy, start, stop, and the instance events
NextFleet ==
  \E r \in Regions :
    \/ \E ok \in BOOLEAN : Deploy(r, ok)
    \/ Start(r)
    \/ Stop(r)
    \/ Launch(r)
    \/ Terminate(r)
    \/ Interrupt(r)

SpecFleet == InitDns /\ [][NextFleet]_vars

----------------------------------------------------------------------------
(* Properties of the peer registry and the allocator (Spec) *)

AllowedIPsLines(conf) == {i \in 1..Len(conf) : conf[i].t = "AllowedIPs"}

\* the offsets of one family held by one line
LineOffsets(l, fam) ==
  { l.ips[e].off : e \in {x \in 1..Len(l.ips) : l.ips[x].fam = fam} }

Range(fam) == IF fam = 4 THEN StartIp..MaxIp4 ELSE StartIp..MaxIp6

Enabled4 == env.HAS_IPV4_SUBNET
Enabled6 == env.HAS_IPV6_SUBNET

\* C1: no double assignment - no two peer blocks of the registry hold the
\* same address in the same family, in any family configuration.
C1_NoDoubleAssignment ==
  \A i, j \in AllowedIPsLines(wg0conf) : \A fam \in {4, 6} :
     i # j => LineOffsets(wg0conf[i], fam) \cap LineOffsets(wg0conf[j], fam) = {}

\* C2: lowest free offset - a successful add-client hands out, in every
\* enabled family, the smallest offset of the allocatable range that no peer
\* block of the registry holds.
C2_LowestFreeOffset ==
  (lastOp.op = "add" /\ lastOp.exit = 0) =>
     /\ Enabled4 =>
          LET free == Range(4) \ OffsetsIn(lastOp.before, 4)
          IN  free # {} /\ lastOp.ip4 = Min(free)
     /\ Enabled6 =>
          LET free == Range(6) \ OffsetsIn(lastOp.before, 6)
          IN  free # {} /\ lastOp.ip6 = Min(free)

\* C3: removed addresses are immediately reusable - an add-client that runs
\* right after a remove-client that excised the block holding offset k
\* succeeds and hands out an offset <= k (after 2,3,4 and the removal of 3
\* it hands out 3).
C3_RemovedAddressReusable ==
  lastOp.op = "add" =>
     /\ lastOp.freed4 # 0 =>
          lastOp.exit = 0 /\ lastOp.ip4 \in StartIp..lastOp.freed4
     /\ lastOp.freed6 # 0 =>
          lastOp.exit = 0 /\ lastOp.ip6 \in StartIp..lastOp.freed6

C3_Witness ==
  /\ lastOp.op = "add" /\ lastOp.exit = 0
  /\ lastOp.freed4 = 3 /\ lastOp.ip4 = 3
  /\ OffsetsIn(lastOp.before, 4) = {2, 4}

\* some enabled family has every offset of its range assigned
Exhausted(conf) ==
  \/ Enabled4 /\ Range(4) \subseteq OffsetsIn(conf, 4)
  \/ Enabled6 /\ Range(6) \subseteq OffsetsIn(conf, 6)

\* C4: exhaustion is deterministic - add-client on a registry in which an
\* enabled family has no free offset exits non-zero and hands out nothing;
\* no add-client hands out an offset outside the allocatable range.
C4_ExhaustionDeterministic ==
  lastOp.op = "add" =>
     /\ Exhausted(lastOp.before) =>
          lastOp.exit = 1 /\ lastOp.ip4 = 0 /\ lastOp.ip6 = 0
     /\ lastOp.ip4 \in {0} \cup Range(4)
     /\ lastOp.ip6 \in {0} \cup Range(6)

C4_Witness ==
  /\ lastOp.op = "add" /\ lastOp.exit = 1
  /\ Enabled4 /\ Range(4) \subseteq OffsetsIn(lastOp.before, 4)

\* C5: a failed add-client leaves the registry artifact as it was.
C5_FailedAddLeavesRegistry ==
  (lastOp.op = "add" /\ lastOp.exit # 0) => wg0conf = lastOp.before

C5_Witness ==
  /\ lastOp.op = "add" /\ lastOp.exit # 0
  /\ Enabled6 /\ Range(6) \subseteq OffsetsIn(lastOp.before, 6)
  /\ wg0conf = lastOp.before

\* C6: removal is idempotent-safe - remove-client of a name that was removed
\* before (and not added since) exits non-zero and leaves the registry
\* artifact as it was.
C6_SecondRemovalPeerNotFound ==
  (lastOp.op = "remove" /\ lastOp.again) =>
     lastOp.exit = 1 /\ wg0conf = lastOp.before

C6_Witness ==
  /\ lastOp.op = "remove" /\ lastOp.again /\ lastOp.exit = 1
  /\ AllowedIPsLines(wg0conf) # {}
  /\ wg0conf = lastOp.before

\* C9: every peer block add-client writes carries at least one address, and
\* add-client exits non-zero and appends nothing when it assigned no address.
C9_PeerHasAddress ==
  /\ \A i \in AllowedIPsLines(wg0conf) : Len(wg0conf[i].ips) >= 1
  /\ \A i \in 1..Len(wg0conf) :
        wg0conf[i].t = "[Peer]" =>
           i + 2 <= Len(wg0conf) /\ wg0conf[i + 2].t = "AllowedIPs"
  /\ (lastOp.op = "add" /\ lastOp.ip4 = 0 /\ lastOp.ip6 = 0) =>
        lastOp.exit # 0 /\ wg0conf = lastOp.before

C9_Witness ==
  /\ lastOp.op = "add" /\ lastOp.exit = 1
  /\ ~Enabled4 /\ ~Enabled6
  /\ wg0conf = lastOp.before

\* the offsets the scan of a family treats as assigned
Seen4(conf) == {ip \in Range(4) : OctetUsed(used_octets_ipv4(conf), ip)}
Seen6(conf) == {ip \in Range(6) : Ipv6Used(used_ips_ipv6(conf), ip)}

\* C10: in each enabled family the addresses the allocator treats as
\* assigned are the addresses of that family in the peer blocks, also when a
\* block holds an address of each family.
C10_ScanSeesAssigned ==
  /\ Enabled4 => Seen4(wg0conf) = OffsetsIn(wg0conf, 4)
  /\ Enabled6 => Seen6(wg0conf) = OffsetsIn(wg0conf, 6)

----------------------------------------------------------------------------
(* Properties of the status probe (SpecStatus) *)

Exists(in) == in.stacks # "" /\ in.stacks # "None"

\* the desired instance count the probe reads
Desired(in) ==
  LET c == get_asg_desired_capacity(in)
  IN  IF c = "1" THEN 1 ELSE IF c = "2" THEN 2 ELSE 0

\* an address was obtained and the connectivity check succeeded
Reachable(in) ==
  get_vpn_server_ip(in) \notin {"", "null"} /\ in.nc = 0

\* C7: status purity - the status of a region is UNDEPLOYED when nothing is
\* deployed, else STOPPED when the desired count is 0, else RUNNING when the
\* gateway is reachable and UNHEALTHY when it is not.
C7_StatusPurity ==
  (probe.done /\ probe.in.region # "") =>
     /\ probe.rc = 0
     /\ probe.out =
          IF ~Exists(probe.in) THEN "UNDEPLOYED"
          ELSE IF Desired(probe.in) = 0 THEN "STOPPED"
          ELSE IF Reachable(probe.in) THEN "RUNNING"
          ELSE "UNHEALTHY"

C7_Witness ==
  /\ probe.done /\ probe.in.region # ""
  /\ Exists(probe.in) /\ Desired(probe.in) = 0 /\ Reachable(probe.in)
  /\ probe.out = "STOPPED"

----------------------------------------------------------------------------
(* Properties of the DNS updater (SpecDns) *)

SentSet == {lastRec.sent[i] : i \in 1..Len(lastRec.sent)}

\* C8: rendezvous idempotence - the zone holds at most one A and at most one
\* AAAA record for the gateway name, and an upsert of records the zone
\* already holds leaves the zone as it was.
C8_RendezvousIdempotence ==
  /\ \A type \in {"A", "AAAA"} :
        Cardinality({r \in zone : r.Type = type}) <= 1
  /\ (lastRec.sent # <<>> /\ SentSet \subseteq lastRec.before) =>
        zone = lastRec.before

C8_Witness ==
  /\ lastRec.statusCode = 200
  /\ Len(lastRec.sent) = 2
  /\ SentSet \subseteq lastRec.before
  /\ zone = lastRec.before

----------------------------------------------------------------------------
(* Properties of remove-client (Spec) *)

\* the line numbers of the section starts of a text, in ascending order
SectionStarts(conf) ==
  LET S == {i \in 1..Len(conf) : IsSectionStart(conf[i])}
  IN  [k \in 1..Cardinality(S) |->
         CHOOSE i \in S : Cardinality({j \in S : j < i}) = k - 1]

\* the blocks of a text: each runs from its start marker to the line before
\* the next start marker, or to the end of the file
Blocks(conf) ==
  LET st == SectionStarts(conf)
  IN  [k \in 1..Len(st) |->
         SubSeq(conf, st[k], IF k = Len(st) THEN Len(conf) ELSE st[k + 1] - 1)]

\* the blocks that hold a PublicKey line with the key
BlocksOfKey(blocks, key) ==
  {k \in 1..Len(blocks) :
     \E i \in 1..Len(blocks[k]) :
        blocks[k][i].t = "PublicKey" /\ blocks[k][i].key = key}

WithoutBlock(blocks, k) ==
  SubSeq(blocks, 1, k - 1) \o SubSeq(blocks, k + 1, Len(blocks))

\* remove-client ran last, for a client whose key is in the registry
RemovedExisting ==
  /\ lastOp.op = "remove" /\ lastOp.exit = 0
  /\ lastOp.key # 0 /\ BlocksOfKey(Blocks(lastOp.before), lastOp.key) # {}

\* C11: remove-client of an existing peer excises exactly that peer's
\* block - the gateway block and every other peer block stay, with the same
\* content and in the same order, wherever the excised block was.
C11_ExcisesExactlyTheBlock ==
  RemovedExisting =>
     LET blocks == Blocks(lastOp.before)
         ks == BlocksOfKey(blocks, lastOp.key)
     IN  /\ Cardinality(ks) = 1
         /\ \A k \in ks : Blocks(wg0conf) = WithoutBlock(blocks, k)
         /\ Len(Blocks(wg0conf)) >= 1
         /\ Blocks(wg0conf)[1][1].t = "[Interface]"

\* the excised block was in the middle: a peer block before and after it
C11_Witness ==
  /\ RemovedExisting
  /\ LET blocks == Blocks(lastOp.before)
     IN  \E k \in BlocksOfKey(blocks, lastOp.key) :
            /\ 2 < k /\ k < Len(blocks)
            /\ Blocks(wg0conf) = WithoutBlock(blocks, k)

\* C12: remove-client never silently skips the removal - it exits 0 only
\* if it excised the block of the client's key, and when the registry holds
\* no such block it exits non-zero and leaves the registry as it was.
C12_NoSilentSkip ==
  lastOp.op = "remove" =>
     LET found == lastOp.key # 0 /\
                  BlocksOfKey(Blocks(lastOp.before), lastOp.key) # {}
     IN  /\ lastOp.exit = 0 => (found /\ wg0conf # lastOp.before)
         /\ ~found => (lastOp.exit # 0 /\ wg0conf = lastOp.before)

----------------------------------------------------------------------------
(* Properties of one lambda invocation (SpecDns) *)

\* the lambda ran and took the event for an instance launch
LaunchHandled ==
  /\ lastRec.statusCode # 0
  /\ lambdaEnv.DOMAIN_NAME
  /\ lastRec.StatusCode \in {"InProgress", "Successful"}
  /\ lastRec.EC2InstanceId # 0

\* the address EC2 reports for the instance in a family (0: none)
Reported(desc, type) ==
  IF desc.throws \/ ~desc.found THEN 0
  ELSE IF type = "A" THEN desc.PublicIpAddress
  ELSE IF desc.Ipv6Address # 0 THEN desc.Ipv6Address
  ELSE desc.NetworkInterfaceIpv6

Required(type) ==
  IF type = "A" THEN lambdaEnv.HAS_IPV4_SUBNET ELSE lambdaEnv.HAS_IPV6_SUBNET

\* C13: on a notification with status Failed the lambda resolves no
\* address, sends no change, and leaves the zone as it was.
C13_FailedTakesNoAction ==
  (lastRec.statusCode # 0 /\ lastRec.StatusCode = "Failed") =>
     /\ lastRec.ipv4 = 0 /\ lastRec.ipv6 = 0
     /\ lastRec.sent = <<>>
     /\ zone = lastRec.before

C13_Witness ==
  /\ lastRec.statusCode # 0 /\ lastRec.StatusCode = "Failed"
  /\ lambdaEnv.DOMAIN_NAME /\ lambdaEnv.HAS_IPV4_SUBNET
  /\ lastRec.EC2InstanceId = 2
  /\ Reported(lastRec.desc, "A") = 2
  /\ lastRec.sendOk /\ lambdaEnv.HOSTED_ZONE_ID
  /\ zone = lastRec.before /\ zone # {}

\* C15: if a required family has no resolved address, the invocation ends
\* with an error result.
C15_MissingFamilyFails ==
  (LaunchHandled /\ \E type \in {"A", "AAAA"} :
                       Required(type) /\ Reported(lastRec.desc, type) = 0)
     => lastRec.statusCode = 500

\* C16: partial publication - when both families are required and exactly
\* one is resolved, the record of that family is upserted with the
\* instance's address (given a hosted zone and a successful Route 53 call);
\* a record is sent for a family only if the family is required and resolved.
C16_PartialPublication ==
  /\ \A i \in 1..Len(lastRec.sent) :
        /\ Required(lastRec.sent[i].Type)
        /\ lastRec.sent[i].Value # 0
        /\ lastRec.sent[i].Value = Reported(lastRec.desc, lastRec.sent[i].Type)
  /\ \A type \in {"A", "AAAA"} :
        LET other == IF type = "A" THEN "AAAA" ELSE "A"
        IN  ( /\ LaunchHandled
              /\ Required("A") /\ Required("AAAA")
              /\ ~lastRec.desc.throws
              /\ Reported(lastRec.desc, type) # 0
              /\ Reported(lastRec.desc, other) = 0
              /\ (lambdaEnv.HOSTED_ZONE_ID \/ lastRec.zoneFound)
              /\ lastRec.sendOk )
            => /\ lastRec.sent =
                    << ResourceRecordSet(type, Reported(lastRec.desc, type)) >>
               /\ ResourceRecordSet(type, Reported(lastRec.desc, type)) \in zone

C16_Witness ==
  /\ LaunchHandled /\ lastRec.statusCode = 200
  /\ Required("A") /\ Required("AAAA")
  /\ Reported(lastRec.desc, "A") = 0
  /\ Reported(lastRec.desc, "AAAA") = 2
  /\ ResourceRecordSet("AAAA", 1) \in lastRec.before
  /\ ResourceRecordSet("AAAA", 2) \in zone

\* the invocation met one of the failures of a reconciliation
AttemptFailed ==
  /\ LaunchHandled
  /\ \/ lastRec.desc.throws
     \/ \A type \in {"A", "AAAA"} : Required(type) /\ Reported(lastRec.desc, type) = 0
     \/ ~lambdaEnv.HOSTED_ZONE_ID /\ ~lastRec.zoneFound
     \/ /\ ~lastRec.sendOk
        /\ \E type \in {"A", "AAAA"} : Required(type) /\ Reported(lastRec.desc, type) # 0

\* C17: a failed reconciliation leaves the records of the zone at their
\* previous values and is returned as an error result.
C17_FailureLeavesRecords ==
  /\ lastRec.statusCode \in {0, 200, 400, 500}
  /\ lastRec.statusCode \in {400, 500} => zone = lastRec.before
  /\ AttemptFailed => (lastRec.statusCode = 500 /\ zone = lastRec.before)

\* the Route 53 call failed with two changes in the batch and records in the zone
C17_Witness ==
  /\ AttemptFailed /\ lastRec.statusCode = 500
  /\ ~lastRec.sendOk /\ lambdaEnv.HOSTED_ZONE_ID
  /\ Reported(lastRec.desc, "A") = 2 /\ Reported(lastRec.desc, "AAAA") = 2
  /\ Required("A") /\ Required("AAAA")
  /\ lastRec.before = {ResourceRecordSet("A", 1), ResourceRecordSet("AAAA", 1)}
  /\ zone = lastRec.before

----------------------------------------------------------------------------
(* Persistence of the registry (Spec) *)

\* C18: when an add-client or remove-client that changed wg0.conf has
\* completed, the copy of wg0.conf in the S3 bucket equals the live file.
C18_PersistedAfterMutation ==
  (lastOp.op \in {"add", "remove"} /\ wg0conf # lastOp.before)
     => s3conf = wg0conf

C18_Witness ==
  /\ lastOp.op = "remove" /\ wg0conf # lastOp.before
  /\ Len(wg0conf) > Len(InterfaceBlock)
  /\ s3conf = wg0conf /\ s3conf # lastOp.before

----------------------------------------------------------------------------
(* Peer names (Spec) *)

PublicKeyLines(conf) == {i \in 1..Len(conf) : conf[i].t = "PublicKey"}

\* the clients that exist and whose current key is the key of line i
OwnersOf(conf, i) ==
  {n \in Names : clients[n].dir /\ clients[n].key = conf[i].key}

\* C20: every peer block of wg0.conf belongs to exactly one client that
\* exists - its key is the current key of that client, which is what
\* remove-client of the name looks for - and no two blocks hold the same
\* key; so no name has left a second block behind.
C20_UniqueNames ==
  LET P == PublicKeyLines(wg0conf)
  IN  /\ \A i \in P : Cardinality(OwnersOf(wg0conf, i)) = 1
      /\ \A i, j \in P : i # j => wg0conf[i].key # wg0conf[j].key

----------------------------------------------------------------------------
(* Concurrent add-client runs (SpecRace) *)

\* the AllowedIPs line of the peer block with the given key (0: no block)
AllowedIPsOfKey(conf, key) ==
  LET S == {i \in AllowedIPsLines(conf) : conf[i - 1].t = "PublicKey" /\
                                          conf[i - 1].key = key}
  IN  IF S = {} THEN 0 ELSE Min(S)

\* both processes have written their block, and both chose their addresses
\* from the same wg0.conf (neither had appended when the other scanned)
BothScannedFirst(p, q) ==
  /\ p # q
  /\ procs[p].pc \in {"appended", "done"}
  /\ procs[q].pc \in {"appended", "done"}
  /\ procs[p].seen = procs[q].seen

\* C19: nothing serialises add-client runs - when two runs both scan
\* wg0.conf before either appends its block, both choose the same offsets
\* (with one family enabled: the lowest free offset of the file they
\* scanned) and wg0.conf ends up with two peer blocks holding the same
\* address.
C19_RaceCollides ==
  \A p, q \in Procs :
     BothScannedFirst(p, q) =>
        LET i == AllowedIPsOfKey(wg0conf, procs[p].key)
            j == AllowedIPsOfKey(wg0conf, procs[q].key)
        IN  /\ procs[p].ip4 = procs[q].ip4 /\ procs[p].ip6 = procs[q].ip6
            /\ i # 0 /\ j # 0 /\ i # j
            /\ wg0conf[i].ips = wg0conf[j].ips /\ wg0conf[i].ips # <<>>
            /\ (Enabled4 /\ ~Enabled6) =>
                  procs[p].ip4 = Min(Range(4) \ OffsetsIn(procs[p].seen, 4))
            /\ (Enabled6 /\ ~Enabled4) =>
                  procs[p].ip6 = Min(Range(6) \ OffsetsIn(procs[p].seen, 6))

\* IPv4 only, one peer registered before the race: both runs took offset 3
C19_Witness ==
  /\ BothScannedFirst(1, 2)
  /\ Enabled4 /\ ~Enabled6
  /\ Len(procs[1].seen) > Len(InterfaceBlock)
  /\ procs[1].ip4 = 3 /\ procs[2].ip4 = 3
  /\ procs[1].name # procs[2].name

----------------------------------------------------------------------------
(* Delayed address assignment (SpecRecon) *)

AssignedAt(type) == IF type = "A" THEN recon.at4 ELSE recon.at6

\* C14: if a required family had no address at the first lookup and the
\* instance got one before the timeout, the attempt publishes that address
\* (given a hosted zone and a successful Route 53 call); and the attempt
\* fails for want of an address only once the timeout has expired.
C14_DelayedAddressPublished ==
  recon.pc = "done" =>
     /\ \A type \in {"A", "AAAA"} :
           ( /\ Required(type)
             /\ Reported(lastRec.desc, type) = 0
             /\ AssignedAt(type) # -1
             /\ AssignedAt(type) < recon.started + TimeoutTicks
             /\ (lambdaEnv.HOSTED_ZONE_ID \/ lastRec.zoneFound)
             /\ lastRec.sendOk )
           => ResourceRecordSet(type, recon.id) \in zone
     /\ ( /\ lastRec.statusCode = 500
          /\ \A type \in {"A", "AAAA"} : Reported(lastRec.desc, type) = 0 )
        => recon.now >= recon.started + TimeoutTicks

----------------------------------------------------------------------------
(* Failed add-client runs (Spec) *)

\* C27: an add-client that exits non-zero leaves the set of client names
\* with key material on the gateway as it was before the run.
C27_FailedAddLeavesNoTrace ==
  (lastOp.op = "add" /\ lastOp.exit # 0) =>
     KnownClients(clients) = lastOp.known

----------------------------------------------------------------------------
(* add-client then remove-client (Spec) *)

\* C28: a remove-client that runs right after the successful add-client of
\* the same client leaves wg0.conf identical, line for line, to wg0.conf
\* before the add-client.
C28_AddRemoveRoundTrip ==
  (lastOp.op = "remove" /\ lastOp.exit = 0 /\ lastOp.prior # <<>>) =>
     wg0conf = lastOp.prior

----------------------------------------------------------------------------
(* Malformed peer blocks (SpecDamaged) *)

\* the PublicKey lines of the blocks that have no AllowedIPs line
MalformedBlocks(conf) ==
  {i \in PublicKeyLines(conf) :
     i = Len(conf) \/ conf[i + 1].t # "AllowedIPs"}

\* wg0.conf is cut short after the key of its last peer block (a truncated
\* write); at most one block is damaged
TruncateBlock ==
  /\ Len(wg0conf) \in AllowedIPsLines(wg0conf)
  /\ MalformedBlocks(wg0conf) = {}
  /\ wg0conf' = SubSeq(wg0conf, 1, Len(wg0conf) - 1)
  /\ UNCHANGED << env, clients, nextKey, wg0backup, s3conf, lastOp,
                  lambdaEnv, zone, lastRec, probe, procs, recon, fleet,
                  boot, attempts >>

NextDamaged ==
  \/ Next
  \/ TruncateBlock

SpecDamaged == Init /\ [][NextDamaged]_vars

\* C25: a peer block with a key and no address line does not abort the
\* scan of add-client - the run fails only when a family is exhausted or
\* none is enabled - and the offsets handed out are held by no well-formed
\* block of the registry.
C25_MalformedBlockTolerated ==
  (lastOp.op = "add" /\ MalformedBlocks(lastOp.before) # {}) =>
     /\ lastOp.exit # 0 =>
           (Exhausted(lastOp.before) \/ (~Enabled4 /\ ~Enabled6))
     /\ lastOp.exit = 0 =>
           /\ lastOp.ip4 # 0 => lastOp.ip4 \notin OffsetsIn(lastOp.before, 4)
           /\ lastOp.ip6 # 0 => lastOp.ip6 \notin OffsetsIn(lastOp.before, 6)

----------------------------------------------------------------------------
(* First-fit scan and count-and-increment (Spec, IPv4 only) *)

\* an add-client on the IPv4-only gateway the two policies were written for
AddIpv4Only == lastOp.op = "add" /\ Enabled4 /\ ~Enabled6

\* the removal before this add-client cut out the block of offset j, which
\* was not the highest, from a registry without other gaps
FreedNotLatest(j) ==
  LET offs == OffsetsIn(lastOp.before, 4)
  IN  /\ lastOp.freed4 = j
      /\ offs # {}
      /\ offs = (StartIp..(StartIp + Cardinality(offs))) \ {j}
      /\ j < StartIp + Cardinality(offs)

\* every client directory has its peer block and the name is new
NamesInStep ==
  /\ lastOp.name \notin lastOp.known
  /\ Cardinality(lastOp.known) = Cardinality(PublicKeyLines(lastOp.before))

----------------------------------------------------------------------------
(* Status without a rendezvous address (SpecStatus) *)

\* the compute stack publishes a gateway name
NamePublished(in) ==
  in.outputs \notin {"", "null"} /\ in.dns_domain \notin {"", "null"}

\* the resolver of the operator's machine was asked for the name and
\* printed no address
ResolutionFailed(in) ==
  in.resolver \in {"dig", "nslookup"} /\ in.resolved # "10.1.2.3"

\* C26: when a deployment exists and the desired count is nonzero but no
\* address is obtained for the region - no gateway name is published, or
\* the name does not resolve - the status is UNHEALTHY.
C26_NoAddressIsUnhealthy ==
  ( /\ probe.done /\ probe.in.region # ""
    /\ Exists(probe.in) /\ Desired(probe.in) # 0
    /\ (~NamePublished(probe.in) \/ ResolutionFailed(probe.in)) )
  => probe.out = "UNHEALTHY"

----------------------------------------------------------------------------
(* Size of the fleet (SpecFleet) *)

\* C21: in every region the group's bounds are min 0 and max 1, the desired
\* count and the number of instances are 0 or 1, a successful start leaves the
\* desired count at 1 and a successful stop leaves it at 0.
C21_FleetZeroOrOne ==
  \A r \in Regions : fleet[r].deployed =>
    /\ fleet[r].minCapacity = 0 /\ fleet[r].maxCapacity = 1
    /\ fleet[r].desired \in {0, 1}
    /\ fleet[r].instances \in {0, 1}
    /\ (fleet[r].cmd = "start" /\ fleet[r].rc = 0) => fleet[r].desired = 1
    /\ (fleet[r].cmd = "stop" /\ fleet[r].rc = 0) => fleet[r].desired = 0

\* one region stopped after it ran an instance, another started and running
C21_Witness ==
  \E r, q \in Regions :
    /\ fleet[r].deployed /\ fleet[r].cmd = "stop" /\ fleet[r].rc = 0
    /\ fleet[r].desired = 0 /\ fleet[r].instances = 1
    /\ fleet[q].deployed /\ fleet[q].cmd = "start" /\ fleet[q].rc = 0
    /\ fleet[q].desired = 1 /\ fleet[q].instances = 1

----------------------------------------------------------------------------
(* Final states of a reconciliation attempt (SpecRecon) *)

\* the attempt's lookup returned at least one address
ResolvedSome == lastRec.ipv4 # 0 \/ lastRec.ipv6 # 0

\* C22: an attempt that has ended is either Done - it resolved at least one
\* address, upserted, and returned success - or Aborted - its address
\* resolution failed, nothing was upserted, and it returned an error.
C22_DoneOrAborted ==
  recon.pc = "done" =>
     \/ lastRec.statusCode = 200 /\ ResolvedSome /\ lastRec.sent # <<>>
     \/ lastRec.statusCode = 500 /\ ~ResolvedSome /\ lastRec.sent = <<>>

----------------------------------------------------------------------------
(* Instance replacement (SpecBoot) *)

\* the keys of the peer blocks of a registry
PeerKeys(conf) == {conf[i].key : i \in PublicKeyLines(conf)}

\* the bucket held a backup when the instance booted
BackupExisted == boot.s3Before # <<>> /\ boot.keyBefore # 0

\* C23: an instance that boots with a backup in the bucket restores it: its
\* server key is the bucket's, its registry is the bucket's registry, and so
\* holds every peer of the last persisted registry; a registry with only the
\* gateway block and new server keys are made only when there was no backup.
C23_PeersSurviveReplacement ==
  lastOp.op = "boot" =>
     /\ BackupExisted =>
           /\ boot.how = "restored"
           /\ boot.serverKey = boot.keyBefore
           /\ wg0conf = boot.s3Before
           /\ PeerKeys(boot.s3Before) \subseteq PeerKeys(wg0conf)
     /\ boot.how = "new" => (~BackupExisted /\ wg0conf = InterfaceBlock)

\* a replacement instance restored a registry with two peers
C23_Witness ==
  /\ lastOp.op = "boot" /\ boot.how = "restored" /\ BackupExisted
  /\ Cardinality(PeerKeys(wg0conf)) >= 2

----------------------------------------------------------------------------
(* remove-client and add-client interleaved (SpecLost) *)

\* the client the add-client run created is still there: no remove-client
\* has been run for its name since
AddedStillExists ==
  LET cl == clients[procs[Adder].name]
  IN  cl.dir /\ cl.key = procs[Adder].key

\* C29: once a remove-client of peer A, which found A's block and replaced
\* wg0.conf, and an add-client of another peer B have both completed, B's
\* block is in wg0.conf and A's block is not.
C29_NoLostUpdate ==
  ( /\ procs[Remover].pc = "removed" /\ procs[Remover].seen # <<>>
    /\ procs[Adder].pc = "done" /\ AddedStillExists
    /\ procs[Remover].name # procs[Adder].name )
  => /\ procs[Adder].key \in PeerKeys(wg0conf)
     /\ procs[Remover].key \notin PeerKeys(wg0conf)

----------------------------------------------------------------------------
(* Overlapping reconciliation attempts (SpecOverlap) *)

Latest == attempts.launched

\* the address of a family that an attempt resolved
AddressOf(run, type) == IF type = "A" THEN run.ipv4 ELSE run.ipv6

\* C30: once the attempts for two successively launched instances have both
\* completed, the record of every family that the attempt for the later
\* instance upserted holds the address of that instance.
C30_LatestInstancePublished ==
  ( /\ Latest = Cardinality(InstanceIds)
    /\ \A id \in InstanceIds : attempts.run[id].pc = "done" )
  => \A type \in {"A", "AAAA"} :
        ( /\ attempts.run[Latest].statusCode = 200
          /\ AddressOf(attempts.run[Latest], type) # 0 )
        => ResourceRecordSet(type, Latest) \in zone

====
